---------------------------- MODULE Spec2Model ----------------------------
(***************************************************************************)
(* g80-layouts: one run of the command-line tool of src/main.go.           *)
(*                                                                         *)
(* The run parses its flags, loads the layout cache from disk, registers   *)
(* the deferred save, asks the remote service for the list of layout       *)
(* identifiers, slices it by offset and limit, resolves every identifier   *)
(* of the slice (from the cache, or by one remote request whose result is  *)
(* put into the cache), drops layouts whose SemanticHash was already seen  *)
(* unless -redupe is given, renders the table, and finally saves the       *)
(* cache.  The file system and the remote service are the environment:     *)
(* what they answer is chosen nondeterministically from small sets.        *)
(***************************************************************************)
EXTENDS Naturals, Integers, Sequences, FiniteSets, TLC

VARIABLES
    pc,           \* position of main: "main", "readCache", "search", "slice",
                  \* "loop", "deferred", "exited"
    how,          \* how main ended: "running", "return", "panic", "fatal"
    nargs,        \* len(flag.Args())
    limit,        \* -limit
    offset,       \* -offset
    redupe,       \* -redupe
    file,         \* the cache file on disk: [kind, map]
    cache,        \* the entries of the package variable cache: uid -> Layout
    cacheNil,     \* whether cache is the nil map (it then has no entries)
    deferred,     \* whether "defer writeCache()" has been executed
    uids,         \* backing array of the decoded identifier slice (cap(uids) long)
    ulen,         \* len(uids)
    window,       \* uids[offset : offset+limit], the slice the loop ranges over
    idx,          \* position of the range loop in window (1-based, next to visit)
    rows,         \* rows collected for the table
    seenLayouts,  \* set of SemanticHash values already emitted
    table,        \* what table.Render() printed: <<"none">> or <<"rendered", rows>>
    \* history (not read by the program)
    file0,        \* the cache file as the run found it
    loaded,       \* the cache right after readCache
    resolved,     \* the layouts getLayout returned, in call order
    emitted,      \* indices into resolved of the layouts that became rows
    fetched,      \* remote layout requests made: [uid, at, kind, layout]
    puts,         \* uids written into the cache by getLayout, in order
    written,      \* what the deferred writeCache did: "no", "ok", "openfail", "partial"
    abortAt       \* the position at which main panicked or exited early, or "none"

vars == <<pc, how, nargs, limit, offset, redupe, file, cache, cacheNil, deferred, uids,
          ulen, window, idx, rows, seenLayouts, table, file0, loaded,
          resolved, emitted, fetched, puts, written, abortAt>>

flagVars == <<nargs, limit, offset, redupe>>
histVars == <<file0, loaded, resolved, emitted, fetched, puts, written>>

(***************************************************************************)
(* Bounds of the model.                                                    *)
(***************************************************************************)
MaxUids == 3      \* longest identifier list the search returns
MaxLimit == 3     \* largest explicit -limit (the default is added to these)
MaxOffset == 3    \* largest -offset

(***************************************************************************)
(* Program constants.                                                      *)
(***************************************************************************)
DefaultLimit == 10
DefaultOffset == 0

IDs == {"u1", "u2"}
Titles == {"a", "a-b"}
Creators == {"c", "b-c"}
Dates == {1700000000}

Limits == (0..MaxLimit) \cup {DefaultLimit}
Offsets == (0..MaxOffset) \cup {DefaultOffset}

Min(a, b) == IF a <= b THEN a ELSE b

(***************************************************************************)
(* Layout: the fields of the struct that the program reads.                *)
(***************************************************************************)
ZeroLayout ==
    [UUID |-> "", Date |-> 0, Title |-> "", Notes |-> "", Creator |-> ""]

RemoteLayouts(uid) ==
    {[UUID |-> uid, Date |-> d, Title |-> t, Notes |-> "", Creator |-> c] :
        d \in Dates, t \in Titles, c \in Creators}

\* Layout.Time().Format("1/2/06"): the date text depends on the process's
\* local time zone; it is kept as the layout string paired with the time stamp.
FormatDate(date) == <<"1/2/06", date>>

SemanticHash(l) == l.Title \o "-" \o l.Creator

AsRow(l) == <<FormatDate(l.Date), l.Title, l.Notes, l.Creator>>

(***************************************************************************)
(* The cache map and the cache file.                                       *)
(***************************************************************************)
EmptyStore == [u \in {} |-> ZeroLayout]

\* cache[uid] = result
Put(c, uid, l) == [u \in (DOMAIN c) \cup {uid} |-> IF u = uid THEN l ELSE c[u]]

\* _, ok := cache[uid]
Has(c, uid) == uid \in DOMAIN c

\* A layout as an earlier run cached it.
CachedLayout(uid) ==
    [UUID |-> uid, Date |-> 1700000000, Title |-> "a", Notes |-> "", Creator |-> "c"]

\* The states the cache file can be in when the run starts.  map is what
\* json.Unmarshal leaves in the cache: nothing for a missing file or for a
\* syntax error, the decodable entries (a mistyped value decodes to the zero
\* Layout) for a document of the wrong shape.  The document null is decoded
\* without error and sets the map to nil.
CacheFiles ==
    {[kind |-> "absent", map |-> EmptyStore],
     [kind |-> "null", map |-> EmptyStore],
     [kind |-> "unreadable", map |-> EmptyStore],
     [kind |-> "corrupt", map |-> EmptyStore],
     [kind |-> "corrupt", map |-> Put(EmptyStore, "u1", ZeroLayout)],
     [kind |-> "valid", map |-> EmptyStore],
     [kind |-> "valid", map |-> Put(EmptyStore, "u1", CachedLayout("u1"))],
     [kind |-> "valid",
      map |-> Put(Put(EmptyStore, "u1", CachedLayout("u1")), "u2", CachedLayout("u2"))]}

MarshalEmpty(c, isNil) == [kind |-> "valid", map |-> EmptyStore]

\* json.Marshal(cache) followed by a successful ioutil.WriteFile; a nil map
\* is encoded as null
Marshal(c, isNil) ==
    IF isNil THEN [kind |-> "null", map |-> EmptyStore]
    ELSE [kind |-> "valid", map |-> c]

\* ioutil.WriteFile truncates the file before it writes
Truncated == [kind |-> "corrupt", map |-> EmptyStore]

WriteResults == {"ok", "openfail", "partial"}

FileAfterWrite(f, c, isNil, res) ==
    CASE res = "ok" -> Marshal(c, isNil)
      [] res = "openfail" -> f
      [] res = "partial" -> Truncated

(***************************************************************************)
(* The identifier slice decoded by json.Unmarshal(uidBytes, &uids).        *)
(* encoding/json grows the slice as it decodes, so cap(uids) may exceed    *)
(* len(uids); the elements between them are zero strings.  The Go releases *)
(* that can build this program grow it in three ways:                      *)
(*   "legacy"     a new slice of cap + cap/2, at least 4;                  *)
(*   "grow"       reflect.Value.Grow(1), the growth of append: one element *)
(*                from nothing, doubling below 256 elements, then a        *)
(*                quarter of cap + 768 more, the bytes rounded up to an    *)
(*                allocation size;                                         *)
(*   "growheader" the same, where the allocator (Go 1.22 and later) puts   *)
(*                an 8-byte header in front of an object of more than 512  *)
(*                bytes that holds pointers, as strings do.                *)
(* A string takes 16 bytes on a 64-bit build.                              *)
(***************************************************************************)
GrowthPolicies == {"legacy", "grow", "growheader"}

\* the allocator's size classes, in bytes
SizeClasses ==
    {8, 16, 24, 32, 48, 64, 80, 96, 112, 128, 144, 160, 176, 192, 208, 224,
     240, 256, 288, 320, 352, 384, 416, 448, 480, 512, 576, 640, 704, 768,
     896, 1024, 1152, 1280, 1408, 1536, 1792, 2048, 2304, 2688, 3072, 3200,
     3456, 4096, 4864, 5376, 6144, 6528, 6784, 6912, 8192, 9472, 9728,
     10240, 10880, 12288, 13568, 14336, 16384, 18432, 19072, 20480, 21760,
     24576, 27264, 28672, 32768}

\* the smallest size class that holds size bytes
ClassFor(size) ==
    CHOOSE c \in SizeClasses :
        c >= size /\ \A d \in SizeClasses : d >= size => c <= d

\* the usable bytes the allocator hands out for a request of size bytes of
\* strings: the next size class, less the header when the allocator puts
\* one in front, or whole pages of 8192 bytes for a large object
RoundUpSize(size, header) ==
    IF header
    THEN IF size <= 32768 - 8
         THEN IF size > 512 THEN ClassFor(size + 8) - 8 ELSE ClassFor(size)
         ELSE ((size + 8191) \div 8192) * 8192
    ELSE IF size <= 32768
         THEN ClassFor(size)
         ELSE ((size + 8191) \div 8192) * 8192

\* the capacity append gives a full slice of cap strings that gets one more
AppendCap(cap, header) ==
    LET wanted == IF cap = 0 THEN 1
                  ELSE IF cap < 256 THEN 2 * cap
                  ELSE cap + ((cap + 768) \div 4)
    IN  RoundUpSize(wanted * 16, header) \div 16

GrownCap(policy, cap) ==
    IF policy = "legacy"
    THEN IF cap + (cap \div 2) < 4 THEN 4 ELSE cap + (cap \div 2)
    ELSE AppendCap(cap, policy = "growheader")

RECURSIVE CapAfter(_, _, _, _)
\* the capacity once elements i+1 .. n are decoded: the slice grows when
\* the element to decode finds it full (i >= cap), and not before
CapAfter(policy, i, n, cap) ==
    IF i >= n THEN cap
    ELSE IF i >= cap THEN CapAfter(policy, i + 1, n, GrownCap(policy, cap))
    ELSE CapAfter(policy, Min(cap, n), n, cap)

DecodedCap(policy, n) == CapAfter(policy, 0, n, 0)

Backing(ids, cap) == ids \o [k \in 1..(cap - Len(ids)) |-> ""]

IdLists == UNION {[1..n -> IDs] : n \in 0..MaxUids}

SearchKinds == {"ok", "geterr", "readerr", "badjson"}

\* the run-time check of s[low:high] on a slice
SliceInRange(low, high, cap) == 0 <= low /\ low <= high /\ high <= cap

Slice(s, low, high) == SubSeq(s, low + 1, high)

(***************************************************************************)
(* What the remote service can answer to the request for one layout.       *)
(***************************************************************************)
Responses(uid) ==
    {[kind |-> "geterr", layout |-> ZeroLayout],
     [kind |-> "readerr", layout |-> ZeroLayout],
     [kind |-> "badjson", layout |-> ZeroLayout]}
    \cup {[kind |-> "ok", layout |-> l] : l \in RemoteLayouts(uid)}

FetchPanics(resp) == resp.kind \in {"geterr", "readerr"}

(***************************************************************************)
(* One iteration of the loop body after getLayout returned layout.         *)
(***************************************************************************)
DedupStepNoMark(rd, seen, rs, layout) ==
    IF rd \/ SemanticHash(layout) \notin seen
    THEN [rows |-> Append(rs, AsRow(layout)), seen |-> seen, emit |-> TRUE]
    ELSE [rows |-> rs, seen |-> seen, emit |-> FALSE]

DedupStepIgnoresRedupe(rd, seen, rs, layout) ==
    IF SemanticHash(layout) \notin seen
    THEN [rows |-> Append(rs, AsRow(layout)),
          seen |-> seen \cup {SemanticHash(layout)}, emit |-> TRUE]
    ELSE [rows |-> rs, seen |-> seen, emit |-> FALSE]

DedupStep(rd, seen, rs, layout) ==
    IF rd
    THEN [rows |-> Append(rs, AsRow(layout)), seen |-> seen, emit |-> TRUE]
    ELSE LET hash == SemanticHash(layout)
         IN  IF hash \notin seen
             THEN [rows |-> Append(rs, AsRow(layout)),
                   seen |-> seen \cup {hash}, emit |-> TRUE]
             ELSE [rows |-> rs, seen |-> seen, emit |-> FALSE]

DeferredRunsOnReturnOnly(h, d) == d /\ h = "return"

\* a deferred call runs when main returns or panics, not on os.Exit
DeferredRuns(h, d) == d /\ h \in {"return", "panic"}

(***************************************************************************)
(* Initial states: the command line and the cache file.                    *)
(***************************************************************************)
Init ==
    /\ pc = "main"
    /\ how = "running"
    /\ nargs \in 0..2
    /\ limit \in Limits
    /\ offset \in Offsets
    /\ redupe \in BOOLEAN
    /\ file \in CacheFiles
    /\ cache = EmptyStore
    /\ cacheNil = FALSE
    /\ deferred = FALSE
    /\ uids = <<>>
    /\ ulen = 0
    /\ window = <<>>
    /\ idx = 1
    /\ rows = <<>>
    /\ seenLayouts = {}
    /\ table = <<"none">>
    /\ file0 = file
    /\ loaded = EmptyStore
    /\ resolved = <<>>
    /\ emitted = <<>>
    /\ fetched = <<>>
    /\ puts = <<>>
    /\ written = "no"
    /\ abortAt = "none"

Abort(h) ==
    /\ pc' = "deferred"
    /\ how' = h
    /\ abortAt' = pc

(***************************************************************************)
(* main, lines 120-147: the cache path and the command line.               *)
(***************************************************************************)
NoCachePath ==
    /\ pc = "main"
    /\ Abort("panic")
    /\ UNCHANGED <<flagVars, file, cache, cacheNil, deferred, uids, ulen, window, idx,
                   rows, seenLayouts, table, histVars>>

TooManyArgs ==
    /\ pc = "main"
    /\ nargs > 1
    /\ Abort("fatal")
    /\ UNCHANGED <<flagVars, file, cache, cacheNil, deferred, uids, ulen, window, idx,
                   rows, seenLayouts, table, histVars>>

ParseArgs ==
    /\ pc = "main"
    /\ ~(nargs > 1)
    /\ pc' = "readCache"
    /\ UNCHANGED <<how, flagVars, file, cache, cacheNil, deferred, uids, ulen, window,
                   idx, rows, seenLayouts, table, histVars>>
    /\ UNCHANGED abortAt

(***************************************************************************)
(* readCache() and "defer writeCache()", lines 68-75 and 149-150.          *)
(***************************************************************************)
ReadCacheFails ==
    /\ pc = "readCache"
    /\ file.kind = "unreadable"
    /\ Abort("panic")
    /\ UNCHANGED <<flagVars, file, cache, cacheNil, deferred, uids, ulen, window, idx,
                   rows, seenLayouts, table, histVars>>

ReadCache ==
    /\ pc = "readCache"
    /\ file.kind # "unreadable"
    /\ cache' = file.map
    /\ cacheNil' = (file.kind = "null")
    /\ loaded' = file.map
    /\ deferred' = TRUE
    /\ pc' = "search"
    /\ UNCHANGED <<how, flagVars, file, uids, ulen, window, idx, rows,
                   seenLayouts, table, file0, resolved, emitted, fetched,
                   puts, written>>
    /\ UNCHANGED abortAt

(***************************************************************************)
(* The search request, lines 152-172.  The error of http.Get is not read:  *)
(* a failed request leaves resp nil and resp.Body panics; a failed read of *)
(* the body and a body that is not a JSON list of strings panic too.       *)
(***************************************************************************)
SearchFails ==
    /\ pc = "search"
    /\ \E kind \in SearchKinds \ {"ok"} :
          Abort("panic")
    /\ UNCHANGED <<flagVars, file, cache, cacheNil, deferred, uids, ulen, window, idx,
                   rows, seenLayouts, table, histVars>>

Search ==
    /\ pc = "search"
    /\ \E ids \in IdLists, policy \in GrowthPolicies :
          /\ uids' = Backing(ids, DecodedCap(policy, Len(ids)))
          /\ ulen' = Len(ids)
    /\ pc' = "slice"
    /\ UNCHANGED <<how, flagVars, file, cache, cacheNil, deferred, window, idx, rows,
                   seenLayouts, table, histVars>>
    /\ UNCHANGED abortAt

(***************************************************************************)
(* uids[offset : offset+limit], line 176.                                  *)
(***************************************************************************)
SlicePanics ==
    /\ pc = "slice"
    /\ ~SliceInRange(offset, offset + limit, Len(uids))
    /\ Abort("panic")
    /\ UNCHANGED <<flagVars, file, cache, cacheNil, deferred, uids, ulen, window, idx,
                   rows, seenLayouts, table, histVars>>

SliceWindow ==
    /\ pc = "slice"
    /\ SliceInRange(offset, offset + limit, Len(uids))
    /\ window' = Slice(uids, offset, offset + limit)
    /\ idx' = 1
    /\ pc' = "loop"
    /\ UNCHANGED <<how, flagVars, file, cache, cacheNil, deferred, uids, ulen, rows,
                   seenLayouts, table, histVars>>
    /\ UNCHANGED abortAt

(***************************************************************************)
(* One iteration of the loop, lines 176-189, with getLayout, lines 91-117. *)
(***************************************************************************)
Collect(layout) ==
    LET r == DedupStep(redupe, seenLayouts, rows, layout)
    IN  /\ rows' = r.rows
        /\ seenLayouts' = r.seen
        /\ resolved' = Append(resolved, layout)
        /\ emitted' = IF r.emit THEN Append(emitted, Len(resolved) + 1) ELSE emitted
        /\ idx' = idx + 1

ResolveHit ==
    /\ pc = "loop"
    /\ idx <= Len(window)
    /\ Has(cache, window[idx])
    /\ Collect(cache[window[idx]])
    /\ UNCHANGED <<pc, how, flagVars, file, cache, cacheNil, deferred, uids, ulen,
                   window, table, file0, loaded, fetched, puts, written>>
    /\ UNCHANGED abortAt

ResolveMiss ==
    /\ pc = "loop"
    /\ idx <= Len(window)
    /\ ~Has(cache, window[idx])
    /\ ~cacheNil
    /\ \E resp \in Responses(window[idx]) :
          /\ ~FetchPanics(resp)
          /\ fetched' = Append(fetched, [uid |-> window[idx], at |-> idx,
                                         kind |-> resp.kind, layout |-> resp.layout])
          /\ cache' = Put(cache, window[idx], resp.layout)
          /\ puts' = Append(puts, window[idx])
          /\ Collect(resp.layout)
    /\ UNCHANGED <<pc, how, flagVars, file, cacheNil, deferred, uids, ulen,
                   window, table, file0, loaded, written>>
    /\ UNCHANGED abortAt

\* the request returned and was decoded, and cache[uid] = result, line 115,
\* panics: assignment to an entry of a nil map
ResolveMissNilMap ==
    /\ pc = "loop"
    /\ idx <= Len(window)
    /\ ~Has(cache, window[idx])
    /\ cacheNil
    /\ \E resp \in Responses(window[idx]) :
          /\ ~FetchPanics(resp)
          /\ fetched' = Append(fetched, [uid |-> window[idx], at |-> idx,
                                         kind |-> resp.kind, layout |-> resp.layout])
    /\ Abort("panic")
    /\ UNCHANGED <<flagVars, file, cache, cacheNil, deferred, uids, ulen, window, idx,
                   rows, seenLayouts, table, file0, loaded, resolved, emitted,
                   puts, written>>

ResolveFails ==
    /\ pc = "loop"
    /\ idx <= Len(window)
    /\ ~Has(cache, window[idx])
    /\ \E resp \in Responses(window[idx]) :
          /\ FetchPanics(resp)
          /\ fetched' = Append(fetched, [uid |-> window[idx], at |-> idx,
                                         kind |-> resp.kind, layout |-> resp.layout])
    /\ Abort("panic")
    /\ UNCHANGED <<flagVars, file, cache, cacheNil, deferred, uids, ulen, window, idx,
                   rows, seenLayouts, table, file0, loaded, resolved, emitted,
                   puts, written>>

(***************************************************************************)
(* The table, lines 190-193, and the return of main.                       *)
(***************************************************************************)
Render ==
    /\ pc = "loop"
    /\ idx > Len(window)
    /\ table' = <<"rendered", rows>>
    /\ pc' = "deferred"
    /\ how' = "return"
    /\ UNCHANGED <<flagVars, file, cache, cacheNil, deferred, uids, ulen, window, idx,
                   rows, seenLayouts, histVars>>
    /\ UNCHANGED abortAt

(***************************************************************************)
(* The end of the process: the deferred writeCache(), lines 77-89, runs    *)
(* if it was registered and main returned or panicked.                     *)
(***************************************************************************)
WriteCache ==
    /\ pc = "deferred"
    /\ DeferredRuns(how, deferred)
    /\ \E res \in WriteResults :
          /\ file' = FileAfterWrite(file, cache, cacheNil, res)
          /\ written' = res
    /\ pc' = "exited"
    /\ UNCHANGED <<how, flagVars, cache, cacheNil, deferred, uids, ulen, window, idx,
                   rows, seenLayouts, table, file0, loaded, resolved, emitted,
                   fetched, puts>>
    /\ UNCHANGED abortAt

ExitWithoutSave ==
    /\ pc = "deferred"
    /\ ~DeferredRuns(how, deferred)
    /\ pc' = "exited"
    /\ UNCHANGED <<how, flagVars, file, cache, cacheNil, deferred, uids, ulen, window,
                   idx, rows, seenLayouts, table, histVars>>
    /\ UNCHANGED abortAt

Next ==
    \/ NoCachePath
    \/ TooManyArgs
    \/ ParseArgs
    \/ ReadCacheFails
    \/ ReadCache
    \/ SearchFails
    \/ Search
    \/ SlicePanics
    \/ SliceWindow
    \/ ResolveHit
    \/ ResolveMiss
    \/ ResolveMissNilMap
    \/ ResolveFails
    \/ Render
    \/ WriteCache
    \/ ExitWithoutSave

Spec == Init /\ [][Next]_vars

(***************************************************************************)
(* Vocabulary of the properties.                                           *)
(***************************************************************************)
\* the identifiers the search returned (the slice up to its length)
Ids == SubSeq(uids, 1, ulen)

\* the expression uids[offset : offset+limit] has been evaluated
SliceTried == pc = "loop" \/ how = "return" \/ abortAt \in {"slice", "loop"}

\* the load is over and the save is registered
LoadDone == pc = "search" \/ pc = "slice" \/ SliceTried \/ abortAt = "search"

\* the semantic key of the specification: the pair (title, creator)
Key(l) == <<l.Title, l.Creator>>

Range(s) == {s[k] : k \in 1..Len(s)}

IsOkFetch(f) == ~FetchPanics(f)

FetchesOf(uid) == {k \in 1..Len(fetched) : fetched[k].uid = uid}

(***************************************************************************)
(* C1.  Offset past the end: whenever the search returned N identifiers    *)
(* and offset >= N (limit >= 0, the default 10 included), slicing does not *)
(* panic, the window is empty, and the run ends by rendering an empty      *)
(* table and running the save.                                             *)
(***************************************************************************)
C1_OffsetPastEndIsEmpty ==
    (SliceTried /\ offset >= ulen /\ limit >= 0) =>
        /\ abortAt # "slice"
        /\ window = <<>>
        /\ (pc = "exited" =>
               how = "return" /\ table = <<"rendered", <<>>>> /\ written # "no")

(***************************************************************************)
(* C2.  Selection window: for 0 <= offset <= N and limit >= 0 slicing does *)
(* not panic and the window is Ids[offset+1 .. min(N, offset+limit)].      *)
(***************************************************************************)
C2_WindowIsSkipThenTake ==
    (SliceTried /\ 0 <= offset /\ offset <= ulen /\ limit >= 0) =>
        /\ abortAt # "slice"
        /\ window = SubSeq(Ids, offset + 1, Min(ulen, offset + limit))

(***************************************************************************)
(* C3.  Deduplication soundness: without -redupe the rows are the rows of  *)
(* a subsequence of the resolved layouts, in order, no two of them have    *)
(* the same (title, creator), and each is the first resolved layout with   *)
(* its (title, creator).                                                   *)
(***************************************************************************)
C3_DedupSound ==
    ~redupe =>
        /\ Len(rows) = Len(emitted)
        /\ \A k \in 1..Len(emitted) :
              /\ emitted[k] \in 1..Len(resolved)
              /\ rows[k] = AsRow(resolved[emitted[k]])
              /\ \A j \in 1..(k - 1) :
                    /\ emitted[j] < emitted[k]
                    /\ Key(resolved[emitted[j]]) # Key(resolved[emitted[k]])
                    /\ <<rows[j][2], rows[j][4]>> # <<rows[k][2], rows[k][4]>>
              /\ \A j \in 1..(emitted[k] - 1) :
                    Key(resolved[j]) # Key(resolved[emitted[k]])

\* two layouts with the same title and creator under different identifiers
\* were resolved, the later one was dropped, and the table was rendered
C3_Witness ==
    /\ ~redupe
    /\ pc = "exited"
    /\ how = "return"
    /\ \E j, k \in 1..Len(resolved) :
          /\ j < k
          /\ Key(resolved[j]) = Key(resolved[k])
          /\ resolved[j].UUID # resolved[k].UUID
          /\ j \in Range(emitted)
          /\ k \notin Range(emitted)

(***************************************************************************)
(* C4.  Deduplication completeness: without -redupe a resolved layout      *)
(* whose (title, creator) differs from that of every layout resolved       *)
(* before it becomes a row, whatever characters the strings hold.          *)
(***************************************************************************)
C4_DedupComplete ==
    ~redupe =>
        \A k \in 1..Len(resolved) :
            (\A j \in 1..(k - 1) : Key(resolved[j]) # Key(resolved[k]))
                => k \in Range(emitted)

(***************************************************************************)
(* C5.  Identity under -redupe: the rows are the rows of the resolved      *)
(* layouts, all of them, in order; the seen set stays empty; a run that    *)
(* returns rendered one row per identifier of the window, in window order. *)
(***************************************************************************)
C5_RedupeIdentity ==
    redupe =>
        /\ seenLayouts = {}
        /\ Len(rows) = Len(resolved)
        /\ emitted = [k \in 1..Len(resolved) |-> k]
        /\ \A k \in 1..Len(rows) :
              rows[k] = AsRow(resolved[k]) /\ rows[k] = AsRow(cache[window[k]])
        /\ (how = "return" =>
               Len(rows) = Len(window) /\ table = <<"rendered", rows>>)

\* a run with -redupe rendered two rows with the same title and creator
C5_Witness ==
    /\ redupe
    /\ pc = "exited"
    /\ how = "return"
    /\ \E j, k \in 1..Len(rows) :
          j < k /\ Key(resolved[j]) = Key(resolved[k])

(***************************************************************************)
(* C6.  Cache miss then hit: an identifier is requested from the remote    *)
(* service at most once per run; every request that returns is followed    *)
(* by one Put of what it returned under that identifier; every resolution  *)
(* of an identifier returns what the cache holds for it, so a later        *)
(* resolution returns the same record; an identifier loaded at startup is  *)
(* never requested and keeps its record; the cache holds exactly the       *)
(* loaded and the put identifiers.                                         *)
(***************************************************************************)
C6_MissThenHit ==
    /\ \A u \in Range(window) : Cardinality(FetchesOf(u)) <= 1
    /\ LET ok == SelectSeq(fetched, IsOkFetch)
       IN  /\ puts = [k \in 1..Len(ok) |-> ok[k].uid]
           /\ \A k \in 1..Len(ok) :
                 Has(cache, ok[k].uid) /\ cache[ok[k].uid] = ok[k].layout
    /\ \A k \in 1..Len(resolved) :
          /\ Has(cache, window[k])
          /\ resolved[k] = cache[window[k]]
          /\ \A j \in 1..(k - 1) : window[j] = window[k] => resolved[j] = resolved[k]
    /\ \A u \in DOMAIN loaded :
          FetchesOf(u) = {} /\ Has(cache, u) /\ cache[u] = loaded[u]
    /\ LoadDone => DOMAIN cache = (DOMAIN loaded) \cup Range(puts)

(***************************************************************************)
(* C7.  Fetch errors are fatal: a layout request that fails in transport   *)
(* or whose body is not a layout document aborts the run; nothing is       *)
(* returned or emitted for that identifier and the cache gets no entry     *)
(* for it.                                                                 *)
(***************************************************************************)
C7_FetchErrorsFatal ==
    \A k \in 1..Len(fetched) :
        fetched[k].kind # "ok" =>
            /\ how = "panic"
            /\ abortAt = "loop"
            /\ ~Has(cache, fetched[k].uid)
            /\ Len(resolved) < fetched[k].at
            /\ fetched[k].at \notin Range(emitted)

(***************************************************************************)
(* C8.  Cache load outcomes: a missing cache file gives an empty cache     *)
(* and the run goes on; a corrupt cache file aborts the run in readCache,  *)
(* before the search.                                                      *)
(***************************************************************************)
C8_LoadOutcomes ==
    /\ (file0.kind = "absent" /\ pc \notin {"main", "readCache"} /\ abortAt # "main")
          => (abortAt # "readCache" /\ loaded = EmptyStore /\ LoadDone)
    /\ file0.kind = "corrupt"
          => (pc \in {"main", "readCache"} \/ abortAt \in {"main", "readCache"})

(***************************************************************************)
(* C9.  Persisted cache: when main returned and the write succeeded, the   *)
(* cache file is a well-formed document that maps every identifier         *)
(* requested in the run to the record the request gave and every           *)
(* identifier loaded at startup to its loaded record; and at every moment  *)
(* after the load the cache still holds every loaded entry unchanged.      *)
(***************************************************************************)
C9_PersistedAfterSuccess ==
    /\ (pc = "exited" /\ how = "return" /\ written = "ok") =>
          /\ file.kind \in {"valid", "null"}
          /\ \A k \in 1..Len(fetched) :
                Has(file.map, fetched[k].uid)
                    /\ file.map[fetched[k].uid] = fetched[k].layout
          /\ \A u \in DOMAIN loaded : Has(file.map, u) /\ file.map[u] = loaded[u]
    /\ \A u \in DOMAIN loaded : Has(cache, u) /\ cache[u] = loaded[u]

\* a run that loaded an entry and requested another returned and saved
C9_Witness ==
    /\ pc = "exited"
    /\ how = "return"
    /\ written = "ok"
    /\ DOMAIN loaded # {}
    /\ \E k \in 1..Len(fetched) :
          fetched[k].kind = "ok" /\ ~Has(loaded, fetched[k].uid)

(***************************************************************************)
(* C10.  Save on abort.  As claimed: after a panic in the search, in the   *)
(* slicing or in the resolution of an identifier the cache file holds the  *)
(* loaded entries and every record put before the panic; after a usage     *)
(* error the cache file is as the run found it.                            *)
(***************************************************************************)
C10_SaveOnAbort_AsClaimed ==
    /\ (pc = "exited" /\ how = "panic" /\ abortAt \in {"search", "slice", "loop"}) =>
          /\ file.kind \in {"valid", "null"}
          /\ file.map = cache
          /\ DOMAIN file.map = (DOMAIN loaded) \cup Range(puts)
    /\ (pc = "exited" /\ how = "fatal") => file = file0

(***************************************************************************)
(* C10, amended.  After a panic in the search, in the slicing or in the    *)
(* resolution of an identifier the deferred writeCache runs, and when its  *)
(* write succeeds the cache file holds the loaded entries and every record *)
(* put before the panic; after a usage error writeCache does not run and   *)
(* the cache file is as the run found it.                                  *)
(***************************************************************************)
C10_SaveOnAbort ==
    /\ (pc = "exited" /\ how = "panic" /\ abortAt \in {"search", "slice", "loop"}) =>
          /\ written # "no"
          /\ written = "ok" =>
                /\ file.kind \in {"valid", "null"}
                /\ file.map = cache
                /\ DOMAIN file.map = (DOMAIN loaded) \cup Range(puts)
                /\ \A u \in DOMAIN loaded : file.map[u] = loaded[u]
                /\ \A k \in 1..Len(fetched) :
                      fetched[k].uid \in Range(puts) =>
                          file.map[fetched[k].uid] = fetched[k].layout
    /\ (pc = "exited" /\ how = "fatal") => (written = "no" /\ file = file0)

\* the run panicked on the request for a later identifier after it had put
\* a record into the cache, and the deferred save wrote the file
C10_Witness ==
    /\ pc = "exited"
    /\ how = "panic"
    /\ abortAt = "loop"
    /\ written = "ok"
    /\ Len(puts) >= 1
    /\ file # file0

=============================================================================
